---- MODULE Spec2Model ----
(***************************************************************************)
(* csv-exec: run a command on every record of a CSV and append the         *)
(* command's trimmed standard output as a new trailing field.              *)
(*                                                                         *)
(* Text is modelled as a sequence of one-character strings, a record as a  *)
(* sequence of fields, the CSV input and output as sequences of rows (the  *)
(* csv crate owns the framing: delimiters, quoting, line ends).            *)
(***************************************************************************)
EXTENDS Integers, Sequences, FiniteSets, TLC

\* ------------------------------------------------------------------ bounds
\* Longest input, in rows (a header row included).
MaxRows == 3
\* Digit strings of more than this many significant digits denote a position
\* that is kept as HugePosition: larger than any record of the model.
MaxExactDigits == 4

\* ------------------------------------------------------------------- text
Digits == {"0", "1", "2", "3", "4", "5", "6", "7", "8", "9"}
Lower ==
    {"a", "b", "c", "d", "e", "f", "g", "h", "i", "j", "k", "l", "m",
     "n", "o", "p", "q", "r", "s", "t", "u", "v", "w", "x", "y", "z"}

DigitVal(c) ==
    CASE c = "0" -> 0 [] c = "1" -> 1 [] c = "2" -> 2 [] c = "3" -> 3
      [] c = "4" -> 4 [] c = "5" -> 5 [] c = "6" -> 6 [] c = "7" -> 7
      [] c = "8" -> 8 [] c = "9" -> 9

\* usize::MAX of a 64-bit target, 2^64 - 1, as decimal digits.
UsizeMaxDigits ==
    <<"1","8","4","4","6","7","4","4","0","7","3","7","0","9","5","5","1","6","1","5">>

\* A byte that cannot occur in UTF-8 text.
BadByte == "<FF>"

\* str::bytes().count() of a one-character string.
ByteLen(c) == IF c = "€" THEN 3 ELSE 1

RECURSIVE ByteCount(_)
ByteCount(s) == IF s = <<>> THEN 0 ELSE ByteLen(Head(s)) + ByteCount(Tail(s))

IsAscii(c) == ByteLen(c) = 1

\* char::is_whitespace, over the characters of the model.
IsWhitespace(c) == c \in {" ", "\t", "\n", "\r"}

RECURSIVE TrimStart(_)
TrimStart(s) ==
    IF s # <<>> /\ IsWhitespace(Head(s)) THEN TrimStart(Tail(s)) ELSE s

RECURSIVE TrimEnd(_)
TrimEnd(s) ==
    IF s # <<>> /\ IsWhitespace(s[Len(s)])
    THEN TrimEnd(SubSeq(s, 1, Len(s) - 1)) ELSE s

\* Variant: str::trim_end in place of str::trim.
TrimEndOnly(s) == TrimEnd(s)

\* str::trim
Trim(s) == TrimEnd(TrimStart(s))

\* std::str::from_utf8 succeeds
ValidUtf8(bytes) == \A k \in 1..Len(bytes) : bytes[k] # BadByte

\* --------------------------------------------------- str::parse::<usize>()
None == [some |-> FALSE, value |-> 0]
Some(v) == [some |-> TRUE, value |-> v]

RECURSIVE StripZeros(_)
StripZeros(ds) ==
    IF ds # <<>> /\ Head(ds) = "0" THEN StripZeros(Tail(ds)) ELSE ds

\* a <= b for digit strings of the same length
RECURSIVE DigitsLeq(_, _)
DigitsLeq(a, b) ==
    IF a = <<>> THEN TRUE
    ELSE IF DigitVal(Head(a)) < DigitVal(Head(b)) THEN TRUE
    ELSE IF DigitVal(Head(a)) > DigitVal(Head(b)) THEN FALSE
    ELSE DigitsLeq(Tail(a), Tail(b))

\* The decimal value exceeds usize::MAX: the checked multiply or add of the
\* digit loop overflows.
Overflows(ds) ==
    LET sig == StripZeros(ds)
    IN  \/ Len(sig) > Len(UsizeMaxDigits)
        \/ Len(sig) = Len(UsizeMaxDigits) /\ ~DigitsLeq(sig, UsizeMaxDigits)

RECURSIVE DecValue(_, _)
DecValue(ds, acc) ==
    IF ds = <<>> THEN acc ELSE DecValue(Tail(ds), acc * 10 + DigitVal(Head(ds)))

RECURSIVE Pow10(_)
Pow10(n) == IF n = 0 THEN 1 ELSE 10 * Pow10(n - 1)

HugePosition == Pow10(MaxExactDigits)

\* The value of a digit string that fits usize.
PositionOf(ds) ==
    LET sig == StripZeros(ds)
    IN  IF Len(sig) > MaxExactDigits THEN HugePosition ELSE DecValue(sig, 0)

\* Variant: a signed parse whose magnitude is used as the position.
ParseMagnitude(s) ==
    IF s = <<>> THEN None
    ELSE LET ds == IF Head(s) \in {"+", "-"} THEN Tail(s) ELSE s
         IN  IF ds = <<>> THEN None
             ELSE IF \E k \in 1..Len(ds) : ds[k] \notin Digits THEN None
             ELSE IF Overflows(ds) THEN None
             ELSE Some(PositionOf(ds))

\* position.as_str().parse::<usize>().ok()
ParseUsize(s) ==
    IF s = <<>> THEN None
    ELSE LET ds == IF Head(s) = "+" THEN Tail(s) ELSE s
         IN  IF ds = <<>> THEN None
             ELSE IF \E k \in 1..Len(ds) : ds[k] \notin Digits THEN None
             ELSE IF Overflows(ds) THEN None
             ELSE Some(PositionOf(ds))

\* ------------------------------------------------------------ Regex::new
\* The placeholder patterns of the model, compiled: a literal sigil followed
\* by a greedy run of the characters of a class, the run being capture group
\* 1 ("plus": one or more, "opt": the whole group optional, "none": the
\* pattern has no group).
DefaultArgRegex == "\\$([0-9]+)"

RegexNew(arg_regex) ==
    CASE arg_regex = DefaultArgRegex ->
           [ok |-> TRUE, lit |-> "$", cls |-> Digits, group |-> "plus"]
      [] arg_regex = "€([0-9]+)" ->
           [ok |-> TRUE, lit |-> "€", cls |-> Digits, group |-> "plus"]
      [] arg_regex = "\\$([a-z0-9+-]+)" ->
           [ok |-> TRUE, lit |-> "$", cls |-> Lower \cup Digits \cup {"+", "-"},
            group |-> "plus"]
      [] arg_regex = "\\$([0-9]+)?" ->
           [ok |-> TRUE, lit |-> "$", cls |-> Digits, group |-> "opt"]
      [] arg_regex = "\\$" ->
           [ok |-> TRUE, lit |-> "$", cls |-> {}, group |-> "none"]
      [] OTHER ->
           [ok |-> FALSE, lit |-> "", cls |-> {}, group |-> "none"]

\* Length of the longest run of class characters of s starting at p.
RECURSIVE RunLen(_, _, _)
RunLen(cls, s, p) ==
    IF p <= Len(s) /\ s[p] \in cls THEN 1 + RunLen(cls, s, p + 1) ELSE 0

\* The match of the pattern that starts at position p of s, if there is one:
\* its length and its Captures (group 1 present or not, and its text).
MatchAt(re, s, p) ==
    IF s[p] # re.lit
    THEN [found |-> FALSE, len |-> 0, present |-> FALSE, text |-> <<>>]
    ELSE LET n == IF re.group = "none" THEN 0 ELSE RunLen(re.cls, s, p + 1)
         IN  IF re.group = "plus" /\ n = 0
             THEN [found |-> FALSE, len |-> 0, present |-> FALSE, text |-> <<>>]
             ELSE [found |-> TRUE, len |-> 1 + n, present |-> n > 0,
                   text |-> SubSeq(s, p + 1, p + n)]

\* Variant: positions counted from 1.
RecordGetOneBased(record, position) ==
    IF position >= 1 /\ position <= Len(record)
    THEN Some(record[position]) ELSE [some |-> FALSE, value |-> <<>>]

\* record.get(position): positions counted from 0
RecordGet(record, position) ==
    IF position < Len(record)
    THEN Some(record[position + 1]) ELSE [some |-> FALSE, value |-> <<>>]

\* The replacement closure: caps.get(1), parsed, looked up in the record;
\* the empty string when any of the three gives nothing.
Replacement(caps, record) ==
    LET position == IF caps.present THEN ParseUsize(caps.text) ELSE None
        record_value == IF position.some THEN RecordGet(record, position.value)
                        ELSE [some |-> FALSE, value |-> <<>>]
    IN  IF record_value.some THEN record_value.value ELSE <<>>

\* Regex::replace_all from position p: leftmost non-overlapping matches,
\* the text between them copied, the replacement not scanned again.
RECURSIVE ReplaceFrom(_, _, _, _)
ReplaceFrom(re, s, record, p) ==
    IF p > Len(s) THEN <<>>
    ELSE LET caps == MatchAt(re, s, p)
         IN  IF caps.found
             THEN Replacement(caps, record) \o ReplaceFrom(re, s, record, p + caps.len)
             ELSE <<s[p]>> \o ReplaceFrom(re, s, record, p + 1)

\* Variant: the result of the replacement is scanned once more.
replace_all_rescan(re, arg, record) ==
    ReplaceFrom(re, ReplaceFrom(re, arg, record, 1), record, 1)

replace_all(re, arg, record) == ReplaceFrom(re, arg, record, 1)

\* ------------------------------------------------------ shell_words::split
\* Words are separated by whitespace; single quotes group and are removed;
\* an unclosed quote is a ParseError.  st = words so far, the word being
\* built, whether a word is open, whether a quote is open.
IsShellSpace(c) == c \in {" ", "\t", "\n"}

RECURSIVE SplitFrom(_, _, _)
SplitFrom(s, p, st) ==
    IF p > Len(s)
    THEN [ok |-> ~st.quote,
          words |-> IF st.open THEN Append(st.words, st.word) ELSE st.words]
    ELSE LET c == s[p]
         IN  IF st.quote
             THEN IF c = "'"
                  THEN SplitFrom(s, p + 1, [st EXCEPT !.quote = FALSE])
                  ELSE SplitFrom(s, p + 1, [st EXCEPT !.word = Append(@, c)])
             ELSE IF c = "'"
                  THEN SplitFrom(s, p + 1, [st EXCEPT !.quote = TRUE, !.open = TRUE])
             ELSE IF IsShellSpace(c)
                  THEN SplitFrom(s, p + 1,
                         IF st.open
                         THEN [st EXCEPT !.words = Append(@, st.word),
                                         !.word = <<>>, !.open = FALSE]
                         ELSE st)
             ELSE SplitFrom(s, p + 1, [st EXCEPT !.word = Append(@, c), !.open = TRUE])

ShellSplit(exec) ==
    SplitFrom(exec, 1, [words |-> <<>>, word |-> <<>>, open |-> FALSE, quote |-> FALSE])

\* ------------------------------------------------------------------- data
\* The texts of the model, one character per element.
S_Result == <<"R", "e", "s", "u", "l", "t">>
S_A_Result == <<"A", " ", "R", "e", "s", "u", "l", "t">>
S_Id == <<"I", "d">>
S_Dir == <<"D", "i", "r">>
S_24 == <<"2", "4">>
S_68 == <<"6", "8">>
S_dir_a == <<"e", "x", "a", "m", "p", "l", "e", ".", "c", "o", "m", "/", "a">>
S_dir_b == <<"e", "x", "a", "m", "p", "l", "e", ".", "c", "o", "m", "/", "b">>
S_ph1 == <<"$", "1">>
S_x == <<"x">>
S_echo == <<"e", "c", "h", "o">>
S_run == <<"r", "u", "n">>
E_test == <<"e", "c", "h", "o", " ", "$", "2", "/", "$", "1">>
E_spec == <<"e", "c", "h", "o", " ", "$", "1", "/", "$", "0">>
E_euro == <<"e", "c", "h", "o", " ", "€", "2", "/", "€", "1">>
E_empty == <<>>
E_blank == <<" ">>
E_noargs == <<"e", "c", "h", "o">>
E_zero == <<"e", "c", "h", "o", " ", "$", "0", " ", "a", "$", "1", "/", " ", "$", "7">>
E_max == <<"e", "c", "h", "o", " ", "$", "1", "8", "4", "4", "6", "7", "4", "4", "0", "7", "3", "7", "0", "9", "5", "5", "1", "6", "1", "5">>
E_over == <<"e", "c", "h", "o", " ", "$", "1", "8", "4", "4", "6", "7", "4", "4", "0", "7", "3", "7", "0", "9", "5", "5", "1", "6", "1", "6">>
E_long == <<"e", "c", "h", "o", " ", "$", "0", "0", "0", "0", "1", " ", "$", "9", "9", "9", "9", "9">>
E_signs == <<"e", "c", "h", "o", " ", "$", "-", "1", " ", "$", "+", "1", " ", "$", "x">>
E_lone == <<"e", "c", "h", "o", " ", "$", " ", "$", "1">>
E_quoted == <<"e", "c", "h", "o", " ", "'", "$", "0", " ", "$", "1", "'", " ", "'", "'">>
E_unclosed == <<"e", "c", "h", "o", " ", "'", "$", "0">>
E_run == <<"r", "u", "n", " ", "$", "0">>
O_ok == <<" ", "o", "k", " ", "\n">>
O_no == <<"\t", "n", " ", "o", "\r", "\n">>

\* Rows an input is made of: the header and the rows of the tests, a row
\* whose first field is itself placeholder text, a row of another length.
RowSet ==
    { <<S_Id, S_Dir>>, <<S_24, S_dir_a>>, <<S_68, S_dir_b>>,
      <<S_ph1, S_x>>, <<S_x>> }

RECURSIVE SeqsUpTo(_, _)
SeqsUpTo(S, n) ==
    IF n = 0 THEN {<<>>}
    ELSE LET shorter == SeqsUpTo(S, n - 1)
         IN  shorter \cup {Append(q, x) : q \in {r \in shorter : Len(r) = n - 1}, x \in S}

Inputs == SeqsUpTo(RowSet, MaxRows)

\* Option<String> of a path
NoPath == [some |-> FALSE, value |-> ""]
Path(p) == [some |-> TRUE, value |-> p]

\* The file system of the model.
ReadableFiles == {"in.csv"}
CreatableFiles == {"out.csv"}

\* clap's ArgMatches: the values given (or defaulted) and the flags present.
DefaultMatches ==
    [input |-> NoPath, output |-> NoPath, exec |-> E_spec, flags |-> {},
     delimiter |-> <<",">>, quote |-> <<"\"">>, arg_regex |-> DefaultArgRegex,
     new_column_name |-> S_Result]

\* Command lines that differ in the command, the pattern and the flag.
Commands ==
    { <<E_test, DefaultArgRegex>>, <<E_spec, DefaultArgRegex>>,
      <<E_euro, "€([0-9]+)">>, <<E_euro, DefaultArgRegex>>,
      <<E_empty, DefaultArgRegex>>, <<E_blank, DefaultArgRegex>>,
      <<E_noargs, DefaultArgRegex>>, <<E_zero, DefaultArgRegex>>,
      <<E_zero, "\\$([a-z0-9+-]+)">>,
      <<E_max, DefaultArgRegex>>, <<E_over, DefaultArgRegex>>,
      <<E_long, DefaultArgRegex>>,
      <<E_signs, "\\$([a-z0-9+-]+)">>, <<E_signs, DefaultArgRegex>>,
      <<E_lone, "\\$([0-9]+)?">>, <<E_lone, "\\$">>,
      <<E_quoted, DefaultArgRegex>>, <<E_unclosed, DefaultArgRegex>>,
      <<E_run, DefaultArgRegex>>, <<E_spec, "(">> }

CommandMatches ==
    { [DefaultMatches EXCEPT !.exec = c[1], !.arg_regex = c[2], !.flags = f] :
        c \in Commands, f \in {{}, {"no-header"}} }

\* Command lines that differ in the streams and the framing.
StreamMatches ==
    { [DefaultMatches EXCEPT !.input = i] : i \in {Path("in.csv"), Path("missing.csv")} }
    \cup { [DefaultMatches EXCEPT !.output = o] :
             o \in {Path("out.csv"), Path("/nodir/out.csv")} }
    \cup { [DefaultMatches EXCEPT !.delimiter = d] :
             d \in {<<";">>, <<"\\", "t">>, <<"\t">>, <<>>, <<"€">>, <<",", ",">>} }
    \cup { [DefaultMatches EXCEPT !.quote = q] : q \in {<<"'">>, <<>>, <<"a", "b">>} }
    \cup { [DefaultMatches EXCEPT !.new_column_name = S_A_Result] }

AllMatches == CommandMatches \cup StreamMatches

\* ArgMatches::is_present
is_present(m, name) == name \in m.flags

\* The Config main builds from the matches.
ConfigOf(m) ==
    [input_path |-> m.input, output_path |-> m.output, exec |-> m.exec,
     no_headers |-> is_present(m, "no-headers"),
     delimiter |-> m.delimiter, quote |-> m.quote, arg_regex |-> m.arg_regex,
     new_column_name |-> m.new_column_name]

\* read_one_ascii_char: an error kind, or the character.
read_one_ascii_char(value) ==
    IF ByteCount(value) > 1 THEN [ok |-> FALSE, err |-> "NotOneAsciiChar", ch |-> ""]
    ELSE IF value = <<>> THEN [ok |-> FALSE, err |-> "MissingValue", ch |-> ""]
    ELSE IF IsAscii(value[1]) THEN [ok |-> TRUE, err |-> "", ch |-> value[1]]
    ELSE [ok |-> FALSE, err |-> "NotOneAsciiChar", ch |-> ""]

ReadDelimiter(cfg) ==
    IF cfg.delimiter = <<"\\", "t">> THEN [ok |-> TRUE, err |-> "", ch |-> "\t"]
    ELSE read_one_ascii_char(cfg.delimiter)

\* The first error of run's preamble, in the order run meets them.
PreambleError(cfg) ==
    IF cfg.input_path.some /\ cfg.input_path.value \notin ReadableFiles THEN "OpenFailed"
    ELSE IF cfg.output_path.some /\ cfg.output_path.value \notin CreatableFiles
         THEN "CreateFailed"
    ELSE IF ~ReadDelimiter(cfg).ok THEN ReadDelimiter(cfg).err
    ELSE IF ~read_one_ascii_char(cfg.quote).ok THEN read_one_ascii_char(cfg.quote).err
    ELSE IF ~RegexNew(cfg.arg_regex).ok THEN "RegexError"
    ELSE IF ~ShellSplit(cfg.exec).ok THEN "ParseError"
    ELSE "none"

\* ------------------------------------------------- process::Command::output
NoOutput == [launched |-> FALSE, status |-> 0, stdout |-> <<>>]

RECURSIVE JoinArgs(_)
JoinArgs(a) ==
    IF a = <<>> THEN <<>>
    ELSE IF Len(a) = 1 THEN a[1]
    ELSE a[1] \o <<" ">> \o JoinArgs(Tail(a))

\* What running `command` with `args` can give.  echo prints its arguments
\* and a newline; of any other program nothing is known: it may fail to
\* start, exit with any status, print text or bytes that are no text.
Outcomes(command, a) ==
    IF command = S_echo
    THEN { [launched |-> TRUE, status |-> 0, stdout |-> JoinArgs(a) \o <<"\n">>] }
    ELSE { NoOutput,
           [launched |-> TRUE, status |-> 0, stdout |-> O_ok],
           [launched |-> TRUE, status |-> 1, stdout |-> O_no],
           [launched |-> TRUE, status |-> 0, stdout |-> <<"o", BadByte>>],
           [launched |-> TRUE, status |-> 1, stdout |-> <<BadByte>>] }

\* ------------------------------------------------------------------ state
VARIABLES
    matches,         \* the parsed command line
    input,           \* the rows the input stream holds
    config,          \* Config
    pc,              \* where run is
    err,             \* the error run returned, "none" while there is none
    delimiter,       \* run's locals, as named in run
    quote,
    variable_regex,
    cmd_and_args,
    csv_reader,
    csv_writer,      \* the rows handed to the writer, in order
    record,
    args,
    output

vars == <<matches, input, config, pc, err, delimiter, quote, variable_regex,
          cmd_and_args, csv_reader, csv_writer, record, args, output>>

NoRegex == RegexNew("")

Init ==
    /\ matches \in AllMatches
    /\ input \in Inputs
    /\ config = ConfigOf(matches)
    /\ pc = "run"
    /\ err = "none"
    /\ delimiter = ""
    /\ quote = ""
    /\ variable_regex = NoRegex
    /\ cmd_and_args = <<>>
    /\ csv_reader = [rows |-> <<>>, pos |-> 0, has_headers |-> TRUE,
                     headers_read |-> FALSE, headers |-> <<>>]
    /\ csv_writer = <<>>
    /\ record = <<>>
    /\ args = <<>>
    /\ output = NoOutput

Fail(kind) == pc' = "failed" /\ err' = kind

\* run, lines 120-169: open the streams, validate the configuration, build
\* the reader and the writer.
Configure ==
    /\ pc = "run"
    /\ LET e == PreambleError(config)
       IN  IF e # "none"
           THEN /\ Fail(e)
                /\ UNCHANGED <<delimiter, quote, variable_regex, cmd_and_args, csv_reader>>
           ELSE /\ delimiter' = ReadDelimiter(config).ch
                /\ quote' = read_one_ascii_char(config.quote).ch
                /\ variable_regex' = RegexNew(config.arg_regex)
                /\ cmd_and_args' = ShellSplit(config.exec).words
                /\ csv_reader' = [csv_reader EXCEPT !.rows = input,
                                                    !.has_headers = ~config.no_headers]
                /\ pc' = "headers"
                /\ err' = err
    /\ UNCHANGED <<matches, input, config, csv_writer, record, args, output>>

\* run, lines 171-178: copy the header row, with the new column's name.
WriteHeaders ==
    /\ pc = "headers"
    /\ IF ~config.no_headers
       THEN LET new_headers == IF csv_reader.rows = <<>> THEN <<>>
                               ELSE csv_reader.rows[1]
            IN  /\ csv_reader' = [csv_reader EXCEPT
                                    !.pos = IF csv_reader.rows = <<>> THEN 0 ELSE 1,
                                    !.headers_read = TRUE,
                                    !.headers = new_headers]
                /\ csv_writer' = Append(csv_writer,
                                        Append(new_headers, config.new_column_name))
       ELSE UNCHANGED <<csv_reader, csv_writer>>
    /\ pc' = "loop"
    /\ UNCHANGED <<matches, input, config, err, delimiter, quote, variable_regex,
                   cmd_and_args, record, args, output>>

\* run, lines 180-181: the next record of csv_reader.records().  The reader
\* is not flexible: a row whose number of fields differs from the first
\* row's is an error.
NextRecord ==
    /\ pc = "loop"
    /\ csv_reader.pos < Len(csv_reader.rows)
    /\ LET row == csv_reader.rows[csv_reader.pos + 1]
       IN  /\ csv_reader' = [csv_reader EXCEPT !.pos = @ + 1]
           /\ IF Len(row) # Len(csv_reader.rows[1])
              THEN Fail("UnequalLengths") /\ UNCHANGED record
              ELSE pc' = "record" /\ err' = err /\ record' = row
    /\ args' = <<>>
    /\ output' = NoOutput
    /\ UNCHANGED <<matches, input, config, delimiter, quote, variable_regex,
                   cmd_and_args, csv_writer>>

\* run, lines 187-202: every argument after the command, resolved.
ResolveArgs(re, cmd, rec) ==
    [k \in 1..(Len(cmd) - 1) |-> replace_all(re, cmd[k + 1], rec)]

\* run, lines 182-202: the command and its resolved arguments.
Materialize ==
    /\ pc = "record"
    /\ IF cmd_and_args = <<>>
       THEN Fail("NoCommand") /\ UNCHANGED args
       ELSE /\ args' = ResolveArgs(variable_regex, cmd_and_args, record)
            /\ pc' = "args"
            /\ err' = err
    /\ UNCHANGED <<matches, input, config, delimiter, quote, variable_regex,
                   cmd_and_args, csv_reader, csv_writer, record, output>>

\* Variant: the record is handed to the writer before the launch error is
\* looked at.
ExecuteWritesOnFailure ==
    /\ pc = "args"
    /\ \E o \in Outcomes(cmd_and_args[1], args) :
         IF ~o.launched
         THEN Fail("ExecFailed") /\ csv_writer' = Append(csv_writer, record)
              /\ UNCHANGED output
         ELSE output' = o /\ pc' = "output" /\ err' = err /\ UNCHANGED csv_writer
    /\ UNCHANGED <<matches, input, config, delimiter, quote, variable_regex,
                   cmd_and_args, csv_reader, record, args>>

\* run, lines 203-209: run the command and wait for it.
Execute ==
    /\ pc = "args"
    /\ \E o \in Outcomes(cmd_and_args[1], args) :
         IF ~o.launched
         THEN Fail("ExecFailed") /\ UNCHANGED output
         ELSE output' = o /\ pc' = "output" /\ err' = err
    /\ UNCHANGED <<matches, input, config, delimiter, quote, variable_regex,
                   cmd_and_args, csv_reader, csv_writer, record, args>>

\* Variant: a non-zero exit status is an error too.
DecodeFailsOrNonZero(o) == ~ValidUtf8(o.stdout) \/ o.status # 0

\* from_utf8(&output.stdout)? returns an error
DecodeFails(o) == ~ValidUtf8(o.stdout)

\* Variant: the augmented record is put in front of the records written
\* before it (after the header).
WriteRecordFirst ==
    /\ pc = "output"
    /\ IF DecodeFails(output)
       THEN Fail("Utf8Error") /\ UNCHANGED <<record, csv_writer>>
       ELSE LET out == Trim(output.stdout)
                nhdr == IF csv_reader.headers_read THEN 1 ELSE 0
            IN  /\ record' = Append(record, out)
                /\ csv_writer' = SubSeq(csv_writer, 1, nhdr)
                                    \o <<Append(record, out)>>
                                    \o SubSeq(csv_writer, nhdr + 1, Len(csv_writer))
                /\ pc' = "loop"
                /\ err' = err
    /\ UNCHANGED <<matches, input, config, delimiter, quote, variable_regex,
                   cmd_and_args, csv_reader, args, output>>

\* run, lines 211-213: decode, trim, push the field, write the record.
WriteRecord ==
    /\ pc = "output"
    /\ IF DecodeFails(output)
       THEN Fail("Utf8Error") /\ UNCHANGED <<record, csv_writer>>
       ELSE LET out == Trim(output.stdout)
            IN  /\ record' = Append(record, out)
                /\ csv_writer' = Append(csv_writer, Append(record, out))
                /\ pc' = "loop"
                /\ err' = err
    /\ UNCHANGED <<matches, input, config, delimiter, quote, variable_regex,
                   cmd_and_args, csv_reader, args, output>>

\* run, lines 180 and 215-216: no record is left; flush and return Ok.
Finish ==
    /\ pc = "loop"
    /\ csv_reader.pos = Len(csv_reader.rows)
    /\ pc' = "done"
    /\ UNCHANGED <<matches, input, config, err, delimiter, quote, variable_regex,
                   cmd_and_args, csv_reader, csv_writer, record, args, output>>

Next ==
    \/ Configure
    \/ WriteHeaders
    \/ NextRecord
    \/ Materialize
    \/ Execute
    \/ WriteRecord
    \/ Finish

Spec == Init /\ [][Next]_vars

\* ------------------------------------------------------ derived quantities
\* Input rows the reader consumed as the header, and header rows written.
HeaderRows == IF csv_reader.headers_read /\ csv_reader.rows # <<>> THEN 1 ELSE 0
HeaderWritten == IF csv_reader.headers_read THEN 1 ELSE 0

\* Data records taken from the reader, and augmented records handed to the
\* writer.
RecordsRead == csv_reader.pos - HeaderRows
RecordsWritten == Len(csv_writer) - HeaderWritten

\* The k-th data record of the input, and the k-th record written.
ReadRecordAt(k) == csv_reader.rows[HeaderRows + k]
WrittenRecordAt(k) == csv_writer[HeaderWritten + k]

DefaultPattern == variable_regex = RegexNew(DefaultArgRegex)
DigitChar(i) == <<"0", "1", "2", "3", "4", "5", "6", "7", "8", "9">>[i + 1]
AllWhitespace(s) == \A k \in 1..Len(s) : IsWhitespace(s[k])

\* ----------------------------------------------------------------- claims

\* C1: with the default pattern, an argument that holds one placeholder $i
\* (between literal text) resolves to that text around field i of the
\* record, counted from 0, when i < len(R), and around the empty string when
\* i >= len(R).
RECURSIVE Decimal(_)
Decimal(i) ==
    IF i < 10 THEN <<DigitChar(i)>> ELSE Append(Decimal(i \div 10), DigitChar(i % 10))

CheckedPositions == 0..9 \cup {99999}

C1_InRangeFieldElseEmpty ==
    (pc = "args" /\ DefaultPattern) =>
        \A k \in 1..Len(args) :
          \A i \in CheckedPositions :
            \A zeros \in {<<>>, <<"0", "0", "0", "0">>} :
              \A pre \in {<<>>, <<"a">>} :
                \A post \in {<<>>, <<"/">>} :
                  cmd_and_args[k + 1] = pre \o <<"$">> \o zeros \o Decimal(i) \o post
                    => args[k] = pre \o (IF i < Len(record) THEN record[i + 1] ELSE <<>>)
                                     \o post

C1_Witness ==
    /\ pc = "args"
    /\ DefaultPattern
    /\ cmd_and_args = ShellSplit(E_zero).words
    /\ record = <<S_24, S_dir_a>>
    /\ args = << S_24, <<"a">> \o S_dir_a \o <<"/">>, <<>> >>

\* C2: with the default pattern and a header, `echo $2/$1` on a two-field
\* record [a, b] resolves its argument to b/a ($k is the k-th field counted
\* from 1), and the test's input ends as the test's expected output.
C2_OneBasedPlaceholders ==
    /\ (pc = "args" /\ DefaultPattern /\ cmd_and_args = ShellSplit(E_test).words
          /\ Len(record) = 2)
         => args = << record[2] \o <<"/">> \o record[1] >>
    /\ (pc = "done" /\ DefaultPattern /\ cmd_and_args = ShellSplit(E_test).words
          /\ input = << <<S_Id, S_Dir>>, <<S_24, S_dir_a>>, <<S_68, S_dir_b>> >>)
         => csv_writer = << <<S_Id, S_Dir, S_Result>>,
                            <<S_24, S_dir_a, S_dir_a \o <<"/">> \o S_24>>,
                            <<S_68, S_dir_b, S_dir_b \o <<"/">> \o S_68>> >>

\* C3: when the command template splits into no word at all, the run ends
\* with the "no command" error, no data record having been read, whatever
\* the input holds.
EmptyTemplate ==
    PreambleError(config) = "none" /\ ShellSplit(config.exec).words = <<>>

C3_EmptyCommandBeforeAnyRecord ==
    EmptyTemplate =>
        /\ RecordsRead = 0
        /\ pc # "done"
        /\ pc = "failed" => err = "NoCommand"

\* C4: with --no-header given, no header row is read or written, the first
\* input row is processed as a data record, and the run ends with as many
\* rows written as the input holds.
C4_NoHeaderFlag ==
    "no-header" \in matches.flags =>
        /\ ~csv_reader.headers_read
        /\ \A k \in 1..Len(csv_writer) :
             csv_writer[k][Len(csv_writer[k])] # config.new_column_name
        /\ pc = "done" => Len(csv_writer) = Len(input)

\* C5: records are processed one at a time in input order: the records read
\* exceed the records written by at most one, and the k-th record written
\* extends the k-th record read.
C5_StrictlySequential ==
    /\ RecordsRead - RecordsWritten \in {0, 1}
    /\ pc \in {"loop", "done"} => RecordsRead = RecordsWritten
    /\ \A k \in 1..RecordsWritten :
         /\ Len(WrittenRecordAt(k)) = Len(ReadRecordAt(k)) + 1
         /\ SubSeq(WrittenRecordAt(k), 1, Len(ReadRecordAt(k))) = ReadRecordAt(k)

C5_Witness ==
    /\ pc = "record"
    /\ RecordsRead = 2
    /\ RecordsWritten = 1
    /\ record = <<S_68, S_dir_b>>
    /\ WrittenRecordAt(1) = <<S_24, S_dir_a, S_dir_a \o <<"/">> \o S_24>>

\* C6: when the process of the k-th record cannot be launched the run stops
\* with an error at once: nothing is written for that record, the header and
\* the k-1 records written before stay as they are, and nothing happens
\* afterwards (no record is read, no process launched).
LaunchFails == pc = "args" /\ output' = NoOutput /\ pc' # "output"

C6_LaunchFailureStopsRun ==
    [][ /\ LaunchFails =>
             /\ pc' = "failed"
             /\ err' = "ExecFailed"
             /\ csv_writer' = csv_writer
             /\ csv_reader' = csv_reader
             /\ RecordsWritten = RecordsRead - 1
        /\ err # "ExecFailed" ]_vars

C6_Witness ==
    /\ pc = "failed"
    /\ err = "ExecFailed"
    /\ RecordsRead = 2
    /\ csv_writer = << <<S_Id, S_Dir, S_Result>>, <<S_24, S_dir_a, <<"o", "k">> >> >>

\* C7: resolution never fails: a placeholder whose capture is absent or is
\* no non-negative integer of the index type (text, a negative number, a
\* number above usize::MAX) resolves to the empty string, and the record
\* goes on to the process step.
MalformedCaptures == { <<"-", "1">>, <<"x">>, SubSeq(E_over, 7, Len(E_over)) }

MalformedPlaceholder(re, t) ==
    /\ re.ok
    /\ t # <<>>
    /\ t[1] = re.lit
    /\ \/ /\ re.group # "none"
          /\ Tail(t) \in MalformedCaptures
          /\ \A j \in 2..Len(t) : t[j] \in re.cls
       \/ /\ re.group \in {"opt", "none"}
          /\ Tail(t) = <<>>

C7_ResolutionNeverFails ==
    [][ (pc = "record" /\ cmd_and_args # <<>>) =>
            /\ pc' = "args"
            /\ err' = "none"
            /\ Len(args') = Len(cmd_and_args) - 1
            /\ \A k \in 1..Len(args') :
                 MalformedPlaceholder(variable_regex, cmd_and_args[k + 1])
                   => args'[k] = <<>> ]_vars

C7_Witness ==
    /\ pc = "args"
    /\ cmd_and_args = ShellSplit(E_signs).words
    /\ variable_regex = RegexNew("\\$([a-z0-9+-]+)")
    /\ record = <<S_24, S_dir_a>>
    /\ args = << <<>>, S_dir_a, <<>> >>

\* C8: the exit status is never an error: once the process was launched and
\* its output is valid text the record is written, with a field appended,
\* and the run goes on to the next record, whatever the status; at the
\* process step only a launch failure or a decoding failure stops the run.
C8_ExitStatusIgnored ==
    [][ /\ (pc = "output" /\ ValidUtf8(output.stdout)) =>
             /\ pc' = "loop"
             /\ err' = "none"
             /\ Len(csv_writer') = Len(csv_writer) + 1
             /\ SubSeq(csv_writer'[Len(csv_writer')], 1, Len(record)) = record
        /\ (pc \in {"args", "output"} /\ pc' = "failed") =>
             \/ err' = "ExecFailed" /\ pc = "args"
             \/ err' = "Utf8Error" /\ ~ValidUtf8(output.stdout) ]_vars

C8_Witness ==
    /\ pc = "loop"
    /\ output.launched
    /\ output.status # 0
    /\ RecordsWritten = 1
    /\ WrittenRecordAt(1) = <<S_24, S_dir_a, <<"n", " ", "o">> >>

\* C9: a record written is the record read with one field appended: the
\* fields of the input record, unchanged and in order, then the process's
\* standard output without its leading and trailing whitespace; resolving
\* the arguments leaves the record as it was read.
C9_OneFieldAppended ==
    /\ \A k \in 1..RecordsWritten :
         LET row == WrittenRecordAt(k)
         IN  row # <<>> /\ row = Append(ReadRecordAt(k), row[Len(row)])
    /\ pc \in {"record", "args", "output"} => record = csv_reader.rows[csv_reader.pos]
    /\ (pc = "loop" /\ output.launched) =>
         LET row == csv_writer[Len(csv_writer)]
             f == row[Len(row)]
         IN  /\ row = Append(csv_reader.rows[csv_reader.pos], f)
             /\ record = row
             /\ f # <<>> => ~IsWhitespace(f[1]) /\ ~IsWhitespace(f[Len(f)])
             /\ \E a \in 0..Len(output.stdout) :
                  /\ a + Len(f) <= Len(output.stdout)
                  /\ SubSeq(output.stdout, a + 1, a + Len(f)) = f
                  /\ AllWhitespace(SubSeq(output.stdout, 1, a))
                  /\ AllWhitespace(SubSeq(output.stdout, a + Len(f) + 1,
                                          Len(output.stdout)))

C9_Witness ==
    /\ pc = "loop"
    /\ output.stdout = O_ok
    /\ record = <<S_68, S_dir_b, <<"o", "k">> >>
    /\ csv_writer[Len(csv_writer)] = record
    /\ csv_reader.rows[csv_reader.pos] = <<S_68, S_dir_b>>

\* C10: substitution is a single pass: a field put in place of a placeholder
\* is not scanned again, so with field 0 holding placeholder text the
\* argument $0 resolves to that text as it is, and resolving the result once
\* more gives another string.
HoldsPlaceholder(re, s) == \E p \in 1..Len(s) : MatchAt(re, s, p).found

C10_SinglePass ==
    (pc = "args" /\ DefaultPattern /\ HoldsPlaceholder(variable_regex, record[1])) =>
        \A k \in 1..Len(args) :
            cmd_and_args[k + 1] = <<"$", "0">> =>
                /\ args[k] = record[1]
                /\ record[1] = S_ph1 =>
                     /\ replace_all(variable_regex, args[k], record) = record[2]
                     /\ replace_all(variable_regex, args[k], record) # args[k]

C10_Witness ==
    /\ pc = "args"
    /\ DefaultPattern
    /\ cmd_and_args = ShellSplit(E_zero).words
    /\ record = <<S_ph1, S_x>>
    /\ args[1] = <<"$", "1">>

====
